---- MODULE Spec2Model ----
(***************************************************************************)
(* Client side of the BlenderKit daemon protocol (daemon_lib.py): the port *)
(* registry, the report fetch with its multi-port fallback, the            *)
(* online/offline status notifier, the liveness probe, the feature         *)
(* requests, the launch of the daemon and the reading of its exit code.    *)
(***************************************************************************)
EXTENDS Integers, Sequences, FiniteSets, TLC

(* ------------------------------ bounds -------------------------------- *)

\* number of candidate ports a registry is drawn from
NumPorts == 3
\* the failure counter is not followed beyond this value
MaxFailedReports == 12
\* number of status tasks handled in one behaviour
MaxTasks == 4
\* number of notices the launches of one behaviour add to the notices
MaxLaunchReports == 2
MaxAllTasks == 1

Ports == 80..(79 + NumPorts)

\* values of task.result['online_status']: OK, rate limited, server error
StatusCodes == {200, 429, 500}

(* ------------------------------- state -------------------------------- *)

VARIABLES
  DAEMON_PORTS,            \* global_vars.DAEMON_PORTS, a list of ports
  DAEMON_FAILED_REPORTS,   \* global_vars.DAEMON_FAILED_REPORTS
  DAEMON_ONLINE,           \* global_vars.DAEMON_ONLINE
  logo_status,             \* bpy.context.window_manager.blenderkitUI.logo_status
  reports_log,             \* the notices handed to reports.add_report, in order
  task_log,                \* every task handled so far, with what it emitted
  initial_ports,           \* the registry as it was at start
  last,                    \* the last call, when it was reorder_ports / get_reports
  daemon_process,          \* global_vars.daemon_process
  call                     \* the last call, when it was any other function

vars == <<DAEMON_PORTS, DAEMON_FAILED_REPORTS, DAEMON_ONLINE, logo_status,
          reports_log, task_log, initial_ports, last, daemon_process, call>>

Range(s) == {s[i] : i \in 1..Len(s)}

NoDuplicates(s) == \A i, j \in 1..Len(s) : i # j => s[i] # s[j]

\* every list of distinct ports of length 1..NumPorts
Registries ==
  {s \in UNION {[1..n -> Ports] : n \in 1..NumPorts} : NoDuplicates(s)}

(* --------------------------- port registry ---------------------------- *)

\* a port lookup that takes the end of the list instead of its head
get_port_last(ports) == ports[Len(ports)]

\* line 28: DAEMON_PORTS[0]
get_port(ports) == ports[1]

\* line 21: f'http://127.0.0.1:{get_port()}'
get_address(ports) == [host |-> "127.0.0.1", port |-> get_port(ports)]

\* a lookup in the style of str.find: an absent value gives the position
\* Python's -1 denotes, the last one, instead of an error
index_or_last(ports, port) ==
  IF \E i \in 1..Len(ports) : ports[i] = port
  THEN CHOOSE i \in 1..Len(ports) :
         ports[i] = port /\ \A j \in 1..(i - 1) : ports[j] # port
  ELSE Len(ports)

\* list.index: position of the first occurrence (1-based here), 0 for the
\* ValueError Python raises when the value is absent
index(ports, port) ==
  IF \E i \in 1..Len(ports) : ports[i] = port
  THEN CHOOSE i \in 1..Len(ports) :
         ports[i] = port /\ \A j \in 1..(i - 1) : ports[j] # port
  ELSE 0

NoValue == [kind |-> "None", port |-> 0]

\* a reorder that moves the port to the front and keeps the others in place
reorder_ports_move_to_front(ports, port) ==
  LET i == index(ports, port)
  IN IF i = 0
     THEN [raised |-> TRUE, value |-> [kind |-> "ValueError", port |-> port],
           ports |-> ports]
     ELSE [raised |-> FALSE, value |-> NoValue,
           ports |-> <<port>> \o SubSeq(ports, 1, i - 1)
                             \o SubSeq(ports, i + 1, Len(ports))]

\* a reorder whose second slice is one short: DAEMON_PORTS[i:] + DAEMON_PORTS[:i-1]
reorder_ports_short_slice(ports, port) ==
  LET i == index(ports, port)
  IN IF i = 0
     THEN [raised |-> TRUE, value |-> [kind |-> "ValueError", port |-> port],
           ports |-> ports]
     ELSE [raised |-> FALSE, value |-> NoValue,
           ports |-> SubSeq(ports, i, Len(ports)) \o SubSeq(ports, 1, i - 2)]

\* a reorder that swaps the port with the first one
reorder_ports_swap(ports, port) ==
  LET i == index(ports, port)
  IN IF i = 0
     THEN [raised |-> TRUE, value |-> [kind |-> "ValueError", port |-> port],
           ports |-> ports]
     ELSE [raised |-> FALSE, value |-> NoValue,
           ports |-> [k \in 1..Len(ports) |->
                        IF k = 1 THEN ports[i] ELSE IF k = i THEN ports[1] ELSE ports[k]]]

\* lines 33-34: i = index(port); DAEMON_PORTS = DAEMON_PORTS[i:] + DAEMON_PORTS[:i]
reorder_ports(ports, port) ==
  LET i == index(ports, port)
  IN IF i = 0
     THEN [raised |-> TRUE, value |-> [kind |-> "ValueError", port |-> port],
           ports |-> ports]
     ELSE [raised |-> FALSE, value |-> NoValue,
           ports |-> SubSeq(ports, i, Len(ports)) \o SubSeq(ports, 1, i - 1)]

(* ---------------------------- report fetch ---------------------------- *)

\* lines 68-71: one GET on url; the daemon behind url.port answers exactly
\* when that port is in `up`, otherwise session.get raises
request_report(url, up) ==
  IF url.port \in up
  THEN [raised |-> FALSE, value |-> [kind |-> "report", port |-> url.port]]
  ELSE [raised |-> TRUE, value |-> [kind |-> "ConnectionError", port |-> url.port]]

\* a gate that is off by one: the fallback starts one failure late
single_port_mode_late(failed) == failed <= 10

\* line 49: the counter gates the single-port mode
single_port_mode(failed) == failed < 10

\* a loop over the registry from its end
iteration_order_reversed(ports) == [i \in 1..Len(ports) |-> ports[Len(ports) + 1 - i]]

\* line 55: for port in global_vars.DAEMON_PORTS
iteration_order(ports) == ports

\* a success that returns without making its port the default
promote_skipped(ports, port) == [raised |-> FALSE, value |-> NoValue, ports |-> ports]

\* line 60: reorder_ports(port)
promote(ports, port) == reorder_ports(ports, port)

\* an error kept only when none was kept before
remember_first(last_exception, e) == IF last_exception = NoValue THEN e ELSE last_exception

\* line 64: last_exception = e
remember(last_exception, e) == e

\* lines 50-52: one request to the default address, its error propagates
get_reports_default(ports, up) ==
  LET url == [host |-> get_address(ports).host, port |-> get_address(ports).port,
              path |-> "/report"]
      r == request_report(url, up)
  IN [raised |-> r.raised, value |-> r.value, ports |-> ports, queried |-> <<url>>]

\* lines 54-65: the loop over the list DAEMON_PORTS named when the loop began;
\* reorder_ports is inside the try block, so its error too is kept and skipped
RECURSIVE get_reports_fallback(_, _, _, _, _, _)
get_reports_fallback(iter, i, ports, up, queried, last_exception) ==
  IF i > Len(iter)
  THEN [raised |-> TRUE,
        value |-> IF last_exception = NoValue
                  THEN [kind |-> "TypeError", port |-> 0]
                  ELSE last_exception,
        ports |-> ports, queried |-> queried]
  ELSE LET port == iter[i]
           url == [host |-> "127.0.0.1", port |-> port, path |-> "/report"]
           r == request_report(url, up)
           q == Append(queried, url)
           ro == promote(ports, port)
       IN IF r.raised
          THEN get_reports_fallback(iter, i + 1, ports, up, q,
                                    remember(last_exception, r.value))
          ELSE IF ro.raised
               THEN get_reports_fallback(iter, i + 1, ports, up, q,
                                         remember(last_exception, ro.value))
               ELSE [raised |-> FALSE, value |-> r.value, ports |-> ro.ports,
                     queried |-> q]

\* lines 44-65
get_reports(ports, failed, up) ==
  IF single_port_mode(failed)
  THEN get_reports_default(ports, up)
  ELSE get_reports_fallback(iteration_order(ports), 1, ports, up, <<>>, NoValue)

\* the caller of get_reports counts a call that raised
count_failed_report(failed) == failed + 1

(* --------------------------- status notifier -------------------------- *)

\* line 270: reports.add_report(f'Connected to ...')
ConnectedNotice == [text |-> "Connected to", type |-> "default"]

\* line 278: reports.add_report(f'API limit exceeded for ...', timeout=10, type='ERROR')
RateLimitNotice == [text |-> "API limit exceeded for", type |-> "ERROR"]

\* line 280: reports.add_report(f'Disconnected from ...', timeout=10, type='ERROR')
DisconnectedNotice == [text |-> "Disconnected from", type |-> "ERROR"]

\* a handler that announces every 200, whatever DAEMON_ONLINE was
handle_daemon_status_task_unguarded(online, logo, bk_server_status) ==
  IF bk_server_status = 200
  THEN [emitted |-> <<ConnectedNotice>>, logo_status |-> "logo",
        DAEMON_ONLINE |-> TRUE]
  ELSE IF online = TRUE
       THEN [emitted |-> IF bk_server_status = 429 THEN <<RateLimitNotice>>
                                                    ELSE <<DisconnectedNotice>>,
             logo_status |-> "logo_offline", DAEMON_ONLINE |-> FALSE]
       ELSE [emitted |-> <<>>, logo_status |-> logo, DAEMON_ONLINE |-> online]

\* a handler whose 429 branch does not return: both error notices go out
handle_daemon_status_task_both(online, logo, bk_server_status) ==
  IF bk_server_status = 200
  THEN IF online = FALSE
       THEN [emitted |-> <<ConnectedNotice>>, logo_status |-> "logo",
             DAEMON_ONLINE |-> TRUE]
       ELSE [emitted |-> <<>>, logo_status |-> logo, DAEMON_ONLINE |-> online]
  ELSE IF online = TRUE
       THEN [emitted |-> IF bk_server_status = 429
                         THEN <<RateLimitNotice, DisconnectedNotice>>
                         ELSE <<DisconnectedNotice>>,
             logo_status |-> "logo_offline", DAEMON_ONLINE |-> FALSE]
       ELSE [emitted |-> <<>>, logo_status |-> logo, DAEMON_ONLINE |-> online]

\* a handler that goes offline without touching the logo (line 282 left out)
handle_daemon_status_task_logo_kept(online, logo, bk_server_status) ==
  IF bk_server_status = 200
  THEN IF online = FALSE
       THEN [emitted |-> <<ConnectedNotice>>, logo_status |-> "logo",
             DAEMON_ONLINE |-> TRUE]
       ELSE [emitted |-> <<>>, logo_status |-> logo, DAEMON_ONLINE |-> online]
  ELSE IF online = TRUE
       THEN [emitted |-> IF bk_server_status = 429 THEN <<RateLimitNotice>>
                                                    ELSE <<DisconnectedNotice>>,
             logo_status |-> logo, DAEMON_ONLINE |-> FALSE]
       ELSE [emitted |-> <<>>, logo_status |-> logo, DAEMON_ONLINE |-> online]

\* lines 266-283; `emitted` are the reports.add_report calls of this run
handle_daemon_status_task(online, logo, bk_server_status) ==
  IF bk_server_status = 200
  THEN IF online = FALSE
       THEN [emitted |-> <<ConnectedNotice>>, logo_status |-> "logo",
             DAEMON_ONLINE |-> TRUE]
       ELSE [emitted |-> <<>>, logo_status |-> logo, DAEMON_ONLINE |-> online]
  ELSE IF online = TRUE
       THEN [emitted |-> IF bk_server_status = 429 THEN <<RateLimitNotice>>
                                                    ELSE <<DisconnectedNotice>>,
             logo_status |-> "logo_offline", DAEMON_ONLINE |-> FALSE]
       ELSE [emitted |-> <<>>, logo_status |-> logo, DAEMON_ONLINE |-> online]

(* --------------------------- liveness probe --------------------------- *)

\* an Optional[int]: <<>> is Python's None, <<n>> the int n
None == <<>>

\* no path: a message that names no file
NoPath == [dir |-> "", port |-> 0]

\* line 16: TIMEOUT = (0.1, 0.5), connect and read, in milliseconds here
TIMEOUT == <<100, 500>>

\* no timeout keyword: requests then waits without limit
NoTimeout == <<>>

\* proxies={}: no proxy, whatever the environment says
NoProxies == "{}"

\* a keyword argument that is not passed
NotPassed == "not passed"

DigitChars == <<"0", "1", "2", "3", "4", "5", "6", "7", "8", "9">>

\* the decimal digits of n >= 0, as f'{n}' writes them
RECURSIVE Decimal(_)
Decimal(n) ==
  IF n < 10 THEN <<DigitChars[n + 1]>>
            ELSE Append(Decimal(n \div 10), DigitChars[(n % 10) + 1])

\* what session.get(address) of the probe can end in: a response with a status
\* and a body, a connection-level failure, or another transport error
ProbeOutcomes ==
  {[kind |-> "response", status_code |-> c, text |-> "4242"] : c \in {200, 404, 429, 500}}
    \cup {[kind |-> "ConnectionError"], [kind |-> "ReadTimeout"]}

\* a probe whose except clause is missing: the connection error propagates
daemon_is_alive_uncaught(g, outcome) ==
  LET address == get_address(g.DAEMON_PORTS)
      request == [method |-> "GET",
                  url |-> [host |-> address.host, port |-> address.port, path |-> "/"],
                  json |-> {}, timeout |-> TIMEOUT, proxies |-> NoProxies]
  IN [globals |-> g, requests |-> <<request>>,
      raised |-> outcome.kind # "response",
      value |-> IF outcome.kind # "response" THEN <<FALSE, <<outcome.kind>>>>
                ELSE IF outcome.status_code # 200
                THEN <<FALSE, <<"Server response not 200: ">> \o Decimal(outcome.status_code)>>
                ELSE <<TRUE, <<"Server alive, PID: ", outcome.text>>>>]

\* a probe that records what it found in the connectivity signal
daemon_is_alive_marking(g, outcome) ==
  LET address == get_address(g.DAEMON_PORTS)
      request == [method |-> "GET",
                  url |-> [host |-> address.host, port |-> address.port, path |-> "/"],
                  json |-> {}, timeout |-> TIMEOUT, proxies |-> NoProxies]
      alive == outcome.kind = "response" /\ outcome.status_code = 200
  IN [globals |-> [g EXCEPT !.DAEMON_ONLINE = alive], requests |-> <<request>>,
      raised |-> outcome.kind \notin {"response", "ConnectionError"},
      value |-> IF outcome.kind = "ConnectionError"
                THEN <<FALSE, <<"EXCEPTION", " OCCURED:\", ", outcome.kind>>>>
                ELSE IF outcome.kind # "response" THEN <<FALSE, <<outcome.kind>>>>
                ELSE IF outcome.status_code # 200
                THEN <<FALSE, <<"Server response not 200: ">> \o Decimal(outcome.status_code)>>
                ELSE <<TRUE, <<"Server alive, PID: ", outcome.text>>>>]

\* lines 236-246: one GET on get_address(); the value is the pair returned,
\* its message a list of pieces; an error other than ConnectionError is
\* not caught and `value` then holds it in place of a pair
daemon_is_alive(g, outcome) ==
  LET address == get_address(g.DAEMON_PORTS)
      request == [method |-> "GET",
                  url |-> [host |-> address.host, port |-> address.port, path |-> "/"],
                  json |-> {}, timeout |-> TIMEOUT, proxies |-> NoProxies]
  IN [globals |-> g, requests |-> <<request>>,
      raised |-> outcome.kind \notin {"response", "ConnectionError"},
      value |-> IF outcome.kind = "ConnectionError"
                THEN <<FALSE, <<"EXCEPTION", " OCCURED:\", ", outcome.kind>>>>
                ELSE IF outcome.kind # "response" THEN <<FALSE, <<outcome.kind>>>>
                ELSE IF outcome.status_code # 200
                THEN <<FALSE, <<"Server response not 200: ">> \o Decimal(outcome.status_code)>>
                ELSE <<TRUE, <<"Server alive, PID: ", outcome.text>>>>]

(* -------------------------- feature requests -------------------------- *)

\* the functions that send one request for a feature of the add-on
FeatureOps ==
  {"search_asset", "download_asset", "upload_asset", "kill_download",
   "fetch_gravatar_image", "get_user_profile", "get_comments", "create_comment",
   "feedback_comment", "mark_comment_private", "mark_notification_read",
   "report_usages", "send_code_verifier", "get_download_url", "refresh_token",
   "report_blender_quit", "kill_daemon_server"}

\* the HTTP method each function uses
feature_method(op) ==
  IF op \in {"search_asset", "download_asset", "upload_asset", "get_comments",
             "create_comment", "feedback_comment", "mark_comment_private",
             "mark_notification_read", "report_usages", "send_code_verifier"}
  THEN "POST" ELSE "GET"

\* the path each function appends to get_address()
feature_path(op) ==
  CASE op = "search_asset" -> "/search_asset"
    [] op = "download_asset" -> "/download_asset"
    [] op = "upload_asset" -> "/upload_asset"
    [] op = "kill_download" -> "/kill_download"
    [] op = "fetch_gravatar_image" -> "/profiles/fetch_gravatar_image"
    [] op = "get_user_profile" -> "/profiles/get_user_profile"
    [] op = "get_comments" -> "/comments/get_comments"
    [] op = "create_comment" -> "/comments/create_comment"
    [] op = "feedback_comment" -> "/comments/feedback_comment"
    [] op = "mark_comment_private" -> "/comments/mark_comment_private"
    [] op = "mark_notification_read" -> "/notifications/mark_notification_read"
    [] op = "report_usages" -> "/report_usages"
    [] op = "send_code_verifier" -> "/code_verifier"
    [] op = "get_download_url" -> "/wrappers/get_download_url"
    [] op = "refresh_token" -> "/refresh_token"
    [] op = "report_blender_quit" -> "/report_blender_quit"
    [] op = "kill_daemon_server" -> "/shutdown"

\* the keys of the json body each function sends; "*" stands for the keys of
\* a dict the caller passed in, the empty set for no json keyword at all
feature_json(op) ==
  CASE op = "search_asset" -> {"*", "app_id"}
    [] op = "download_asset" -> {"*", "app_id"}
    [] op = "upload_asset" -> {"app_id", "upload_data", "export_data", "upload_set"}
    [] op = "kill_download" -> {"task_id"}
    [] op = "fetch_gravatar_image" -> {"*", "app_id"}
    [] op = "get_user_profile" -> {"api_key", "app_id"}
    [] op = "get_comments" -> {"asset_id", "api_key", "app_id"}
    [] op = "create_comment" ->
         {"asset_id", "comment_text", "api_key", "reply_to_id", "app_id"}
    [] op = "feedback_comment" ->
         {"asset_id", "comment_id", "api_key", "flag", "app_id"}
    [] op = "mark_comment_private" ->
         {"asset_id", "comment_id", "api_key", "is_private", "app_id"}
    [] op = "mark_notification_read" -> {"notification_id", "api_key", "app_id"}
    [] op = "report_usages" -> {"*", "api_key", "app_id"}
    [] op = "send_code_verifier" -> {"code_verifier"}
    [] op = "get_download_url" -> {"app_id", "resolution", "asset_data", "PREFS"}
    [] op = "refresh_token" -> {"refresh_token"}
    [] op = "report_blender_quit" -> {"app_id"}
    [] op = "kill_daemon_server" -> {}

\* the functions that pass timeout=TIMEOUT, proxies={} to the session
feature_bounded(op) ==
  op \in {"search_asset", "download_asset", "upload_asset", "kill_download",
          "send_code_verifier", "refresh_token", "report_blender_quit",
          "kill_daemon_server"}

\* lines 74-233 and 249-263: the one request a feature function sends
feature_request(g, op) ==
  LET address == get_address(g.DAEMON_PORTS)
  IN [globals |-> g,
      requests |->
        <<[method |-> feature_method(op),
           url |-> [host |-> address.host, port |-> address.port,
                    path |-> feature_path(op)],
           json |-> feature_json(op),
           timeout |-> IF feature_bounded(op) THEN TIMEOUT ELSE NoTimeout,
           proxies |-> IF feature_bounded(op) THEN NoProxies ELSE NotPassed]>>]

(* ------------------------------ launcher ------------------------------ *)

\* lines 37-41: get_daemon_directory_path()
DaemonDir == "global_dir/daemon"

\* lines 296, 324: f'{daemon_dir}/daemon-{get_port()}.log'
daemon_log_path(daemon_dir, port) == [dir |-> daemon_dir, port |-> port]

\* platform.system()
Platforms == {"Windows", "Linux"}

\* subprocess.run(...).returncode of the interpreter check
PythonCheckCodes == {0, 1}

\* how open(log_path) and subprocess.Popen(...) can end: well, or with an
\* error of one of the classes told apart at lines 371-387
SpawnOk == [class |-> "ok", winerror |-> 0]

SpawnErrors ==
  {[class |-> "PermissionError", winerror |-> 0],
   [class |-> "OSError", winerror |-> 87],
   [class |-> "OSError", winerror |-> 0],
   [class |-> "Exception", winerror |-> 0]}

\* an interpreter check whose failure ends the launch
python_check_aborting(returncode) ==
  [logs |-> IF returncode # 0
            THEN <<[level |-> "warning", text |-> "Error checking Python interpreter"]>>
            ELSE <<>>,
   abort |-> returncode # 0]

\* lines 341-349: the interpreter check logs a warning and goes on
python_check(returncode) ==
  [logs |-> IF returncode # 0
            THEN <<[level |-> "warning", text |-> "Error checking Python interpreter"]>>
            ELSE <<>>,
   abort |-> FALSE]

\* lines 354-365: the arguments of the daemon process
spawn_args(g) ==
  [script |-> "daemon/daemon.py", port |-> get_port(g.DAEMON_PORTS),
   flags |-> <<"--port", "--server", "--proxy_which", "--proxy_address",
               "--proxy_ca_certs", "--ip_version", "--system_id", "--version">>]

\* handlers whose last one reports the error and does not raise it again
spawn_failure_swallowing(system, e) ==
  IF e.class = "PermissionError"
  THEN [emitted |-> <<[text |-> "FATAL ERROR: Write access denied to", type |-> "ERROR"]>>,
        raised |-> TRUE]
  ELSE IF e.class = "OSError"
  THEN IF system # "Windows"
       THEN [emitted |-> <<[text |-> "str(e)", type |-> "ERROR"]>>, raised |-> TRUE]
       ELSE IF e.winerror = 87
       THEN [emitted |-> <<[text |-> "FATAL ERROR: Daemon server blocked from starting",
                           type |-> "ERROR"]>>,
             raised |-> TRUE]
       ELSE [emitted |-> <<[text |-> "str(e)", type |-> "ERROR"]>>, raised |-> TRUE]
  ELSE [emitted |-> <<[text |-> "Error: Daemon server failed to start", type |-> "ERROR"]>>,
        raised |-> FALSE]

\* lines 371-387: the except clauses of the spawn
spawn_failure(system, e) ==
  IF e.class = "PermissionError"
  THEN [emitted |-> <<[text |-> "FATAL ERROR: Write access denied to", type |-> "ERROR"]>>,
        raised |-> TRUE]
  ELSE IF e.class = "OSError"
  THEN IF system # "Windows"
       THEN [emitted |-> <<[text |-> "str(e)", type |-> "ERROR"]>>, raised |-> TRUE]
       ELSE IF e.winerror = 87
       THEN [emitted |-> <<[text |-> "FATAL ERROR: Daemon server blocked from starting",
                           type |-> "ERROR"]>>,
             raised |-> TRUE]
       ELSE [emitted |-> <<[text |-> "str(e)", type |-> "ERROR"]>>, raised |-> TRUE]
  ELSE [emitted |-> <<[text |-> "Error: Daemon server failed to start", type |-> "ERROR"]>>,
        raised |-> TRUE]

\* lines 389-393: what is logged and reported once the try block is left
after_spawn(returncode) ==
  IF returncode = 0
  THEN [logs |-> <<[level |-> "info", text |-> "Daemon server starting on address"]>>,
        emitted |-> <<>>]
  ELSE [logs |-> <<[level |-> "warning", text |-> "Tried to start daemon server on address"]>>,
        emitted |-> <<[text |-> "Due to unsuccessful Python check the daemon server will probably fail to run",
                       type |-> "ERROR"]>>]

NoError == [class |-> "none", winerror |-> 0]

\* lines 321-393; `spawn` is how open and Popen end
start_daemon_server(g, system, returncode, spawn) ==
  LET log_path == daemon_log_path(DaemonDir, get_port(g.DAEMON_PORTS))
      check == python_check(returncode)
      args == spawn_args(g)
      failure == spawn_failure(system, spawn)
      after == after_spawn(returncode)
  IN IF check.abort
     THEN [globals |-> g, raised |-> FALSE, error |-> NoError, emitted |-> <<>>,
           logs |-> check.logs, attempted |-> <<>>]
     ELSE IF spawn = SpawnOk
     THEN [globals |-> [g EXCEPT !.daemon_process =
                          [port |-> args.port, log_path |-> log_path,
                           returncode |-> None]],
           raised |-> FALSE, error |-> NoError, emitted |-> after.emitted,
           logs |-> check.logs \o after.logs, attempted |-> <<args>>]
     ELSE IF failure.raised
     THEN [globals |-> g, raised |-> TRUE, error |-> spawn,
           emitted |-> failure.emitted, logs |-> check.logs,
           attempted |-> <<args>>]
     ELSE [globals |-> g, raised |-> FALSE, error |-> NoError,
           emitted |-> failure.emitted \o after.emitted,
           logs |-> check.logs \o after.logs, attempted |-> <<args>>]

(* ------------------------- exit-code classifier ----------------------- *)

\* exit codes a daemon process is let to end with
ExitCodes == {0, 37, 100, 101, 102, 111, 113, 114, 121, 148, 149}

\* a test for "no exit code" that is never true
still_running_never(exit_code) == FALSE

\* line 292: exit_code is None
still_running(exit_code) == exit_code = None

\* line 293
RunningMessage == [pieces |-> <<"Daemon process is running.">>, log_path |-> NoPath]

\* a table without the branch of line 311
exit_message_without_148(exit_code, log_path) ==
  CASE exit_code = <<101>> ->
         [pieces |-> <<"failed to import AIOHTTP. Try to delete ", "dependencies_path",
                       " and restart Blender.">>, log_path |-> NoPath]
    [] exit_code = <<102>> ->
         [pieces |-> <<"failed to import CERTIFI. Try to delete ", "dependencies_path",
                       " and restart Blender.">>, log_path |-> NoPath]
    [] exit_code = <<100>> ->
         [pieces |-> <<"unexpected", " OSError. Please report a bug and paste content of log ">>,
          log_path |-> log_path]
    [] exit_code = <<111>> ->
         [pieces |-> <<"unable to bind any socket. Check your antivirus/", "firewall",
                       " and unblock BlenderKit.">>, log_path |-> NoPath]
    [] exit_code = <<113>> ->
         [pieces |-> <<"cannot open port. Check your antivirus/", "firewall",
                       " and unblock BlenderKit.">>, log_path |-> NoPath]
    [] exit_code = <<114>> ->
         [pieces |-> <<"invalid pointer address. Please report a bug and paste content of log ">>,
          log_path |-> log_path]
    [] exit_code = <<121>> ->
         [pieces |-> <<"semaphore timeout exceeded. In preferences set IP version to \"Use only IPv4\".">>,
          log_path |-> NoPath]
    [] exit_code = <<149>> ->
         [pieces |-> <<"address already ", "in use",
                       ". Select different daemon port in preferences.">>,
          log_path |-> NoPath]
    [] OTHER ->
         [pieces |-> <<"unexpected", " Exception. Please report a bug and paste content of log ">>,
          log_path |-> log_path]

\* lines 297-316: the message of an exit code; log_path is apart from the
\* pieces of text, NoPath when the message names no log
exit_message(exit_code, log_path) ==
  CASE exit_code = <<101>> ->
         [pieces |-> <<"failed to import AIOHTTP. Try to delete ", "dependencies_path",
                       " and restart Blender.">>, log_path |-> NoPath]
    [] exit_code = <<102>> ->
         [pieces |-> <<"failed to import CERTIFI. Try to delete ", "dependencies_path",
                       " and restart Blender.">>, log_path |-> NoPath]
    [] exit_code = <<100>> ->
         [pieces |-> <<"unexpected", " OSError. Please report a bug and paste content of log ">>,
          log_path |-> log_path]
    [] exit_code = <<111>> ->
         [pieces |-> <<"unable to bind any socket. Check your antivirus/", "firewall",
                       " and unblock BlenderKit.">>, log_path |-> NoPath]
    [] exit_code = <<113>> ->
         [pieces |-> <<"cannot open port. Check your antivirus/", "firewall",
                       " and unblock BlenderKit.">>, log_path |-> NoPath]
    [] exit_code = <<114>> ->
         [pieces |-> <<"invalid pointer address. Please report a bug and paste content of log ">>,
          log_path |-> log_path]
    [] exit_code = <<121>> ->
         [pieces |-> <<"semaphore timeout exceeded. In preferences set IP version to \"Use only IPv4\".">>,
          log_path |-> NoPath]
    [] exit_code = <<148>> ->
         [pieces |-> <<"address already ", "in use",
                       ". Select different daemon port in preferences.">>,
          log_path |-> NoPath]
    [] exit_code = <<149>> ->
         [pieces |-> <<"address already ", "in use",
                       ". Select different daemon port in preferences.">>,
          log_path |-> NoPath]
    [] OTHER ->
         [pieces |-> <<"unexpected", " Exception. Please report a bug and paste content of log ">>,
          log_path |-> log_path]

\* lines 286-318; poll() of a process that was never started is an
\* AttributeError on None
check_daemon_exit_code(g) ==
  LET exit_code == g.daemon_process.returncode
      log_path == daemon_log_path(DaemonDir, get_port(g.DAEMON_PORTS))
  IN IF g.daemon_process.port = 0
     THEN [globals |-> g, raised |-> TRUE,
           value |-> <<None, [pieces |-> <<"AttributeError">>, log_path |-> NoPath]>>]
     ELSE IF still_running(exit_code)
     THEN [globals |-> g, raised |-> FALSE, value |-> <<exit_code, RunningMessage>>]
     ELSE [globals |-> g, raised |-> FALSE,
           value |-> <<exit_code, exit_message(exit_code, log_path)>>]

(* ------------------------------ actions ------------------------------- *)

NoCall ==
  [op |-> "none", port |-> 0, up |-> {}, failed_before |-> 0,
   ports_before |-> <<>>, raised |-> FALSE, value |-> NoValue, queried |-> <<>>]

NoOtherCall == [op |-> "none"]

\* global_vars.daemon_process before any launch
NoProcess == [port |-> 0, log_path |-> NoPath, returncode |-> None]

\* the globals of global_vars the functions of the module can reach
Globals ==
  [DAEMON_PORTS |-> DAEMON_PORTS, DAEMON_FAILED_REPORTS |-> DAEMON_FAILED_REPORTS,
   DAEMON_ONLINE |-> DAEMON_ONLINE, daemon_process |-> daemon_process]

\* the globals as a call left them
SetGlobals(g) ==
  /\ DAEMON_PORTS' = g.DAEMON_PORTS
  /\ DAEMON_FAILED_REPORTS' = g.DAEMON_FAILED_REPORTS
  /\ DAEMON_ONLINE' = g.DAEMON_ONLINE
  /\ daemon_process' = g.daemon_process

Init ==
  /\ DAEMON_PORTS \in Registries
  /\ initial_ports = DAEMON_PORTS
  /\ DAEMON_FAILED_REPORTS = 0
  /\ DAEMON_ONLINE = FALSE
  /\ logo_status \in {"logo", "logo_offline"}
  /\ reports_log = <<>>
  /\ task_log = <<>>
  /\ last = NoCall
  /\ daemon_process = NoProcess
  /\ call = NoOtherCall

\* a call reorder_ports(port)
ReorderPorts(port) ==
  LET r == reorder_ports(DAEMON_PORTS, port)
  IN /\ DAEMON_PORTS' = r.ports
     /\ last' = [op |-> "reorder_ports", port |-> port, up |-> {},
                 failed_before |-> DAEMON_FAILED_REPORTS,
                 ports_before |-> DAEMON_PORTS, raised |-> r.raised,
                 value |-> r.value, queried |-> <<>>]
     /\ call' = NoOtherCall
     /\ UNCHANGED <<DAEMON_FAILED_REPORTS, DAEMON_ONLINE, logo_status,
                    reports_log, task_log, initial_ports, daemon_process>>

\* a call get_reports(app_id, api_key) while the daemons of `up` answer,
\* and the caller's count of it when it raised
GetReports(up) ==
  LET r == get_reports(DAEMON_PORTS, DAEMON_FAILED_REPORTS, up)
  IN /\ r.raised => DAEMON_FAILED_REPORTS < MaxFailedReports
     /\ DAEMON_PORTS' = r.ports
     /\ DAEMON_FAILED_REPORTS' =
          IF r.raised THEN count_failed_report(DAEMON_FAILED_REPORTS)
                      ELSE DAEMON_FAILED_REPORTS
     /\ last' = [op |-> "get_reports", port |-> 0, up |-> up,
                 failed_before |-> DAEMON_FAILED_REPORTS,
                 ports_before |-> DAEMON_PORTS, raised |-> r.raised,
                 value |-> r.value, queried |-> r.queried]
     /\ call' = NoOtherCall
     /\ UNCHANGED <<DAEMON_ONLINE, logo_status, reports_log, task_log,
                    initial_ports, daemon_process>>

\* a call handle_daemon_status_task(task) with task.result['online_status'] = status
HandleDaemonStatusTask(status) ==
  LET r == handle_daemon_status_task(DAEMON_ONLINE, logo_status, status)
  IN /\ Len(task_log) < MaxTasks
     /\ DAEMON_ONLINE' = r.DAEMON_ONLINE
     /\ logo_status' = r.logo_status
     /\ reports_log' = reports_log \o r.emitted
     /\ task_log' = Append(task_log, [online_status |-> status,
                                      was_online |-> DAEMON_ONLINE,
                                      emitted |-> r.emitted])
     /\ last' = NoCall
     /\ call' = NoOtherCall
     /\ UNCHANGED <<DAEMON_PORTS, DAEMON_FAILED_REPORTS, initial_ports,
                    daemon_process>>

\* a call daemon_is_alive(session) whose GET ends in `outcome`
DaemonIsAlive(outcome) ==
  LET r == daemon_is_alive(Globals, outcome)
  IN /\ SetGlobals(r.globals)
     /\ call' = [op |-> "daemon_is_alive", before |-> Globals,
                 outcome |-> outcome, requests |-> r.requests,
                 raised |-> r.raised, value |-> r.value]
     /\ last' = NoCall
     /\ UNCHANGED <<logo_status, reports_log, task_log, initial_ports>>

NextPorts ==
  \/ \E port \in Ports : ReorderPorts(port)
  \/ \E up \in SUBSET Ports : GetReports(up)

NextStatus == \E status \in StatusCodes : HandleDaemonStatusTask(status)

\* a call of one of the feature functions
FeatureRequest(op) ==
  LET r == feature_request(Globals, op)
  IN /\ SetGlobals(r.globals)
     /\ call' = [op |-> "feature", before |-> Globals, function |-> op,
                 requests |-> r.requests]
     /\ last' = NoCall
     /\ UNCHANGED <<logo_status, reports_log, task_log, initial_ports>>

\* a call start_daemon_server() on `system`, with the interpreter check
\* ending in `returncode` and the spawn in `spawn`
StartDaemonServer(system, returncode, spawn) ==
  LET r == start_daemon_server(Globals, system, returncode, spawn)
  IN /\ spawn.winerror # 0 => system = "Windows"
     /\ Len(reports_log) + Len(r.emitted) <= MaxLaunchReports
     /\ SetGlobals(r.globals)
     /\ reports_log' = reports_log \o r.emitted
     /\ call' = [op |-> "start_daemon_server", before |-> Globals,
                 system |-> system, python_check |-> returncode, spawn |-> spawn,
                 raised |-> r.raised, error |-> r.error, emitted |-> r.emitted,
                 logs |-> r.logs, attempted |-> r.attempted]
     /\ last' = NoCall
     /\ UNCHANGED <<logo_status, task_log, initial_ports>>

\* the daemon process ends with `code`
DaemonExits(code) ==
  /\ daemon_process # NoProcess
  /\ daemon_process.returncode = None
  /\ daemon_process' = [daemon_process EXCEPT !.returncode = <<code>>]
  /\ last' = NoCall
  /\ call' = NoOtherCall
  /\ UNCHANGED <<DAEMON_PORTS, DAEMON_FAILED_REPORTS, DAEMON_ONLINE, logo_status,
                 reports_log, task_log, initial_ports>>

\* a call check_daemon_exit_code()
CheckDaemonExitCode ==
  LET r == check_daemon_exit_code(Globals)
  IN /\ SetGlobals(r.globals)
     /\ call' = [op |-> "check_daemon_exit_code", before |-> Globals,
                 raised |-> r.raised, value |-> r.value]
     /\ last' = NoCall
     /\ UNCHANGED <<logo_status, reports_log, task_log, initial_ports>>

NextLaunch ==
  \E system \in Platforms : \E returncode \in PythonCheckCodes :
    \E spawn \in {SpawnOk} \cup SpawnErrors :
      StartDaemonServer(system, returncode, spawn)

NextExit ==
  \/ \E port \in Ports : ReorderPorts(port)
  \/ StartDaemonServer("Linux", 0, SpawnOk)
  \/ \E code \in ExitCodes : DaemonExits(code)
  \/ CheckDaemonExitCode

NextGateway ==
  \/ \E port \in Ports : ReorderPorts(port)
  \/ \E op \in FeatureOps : FeatureRequest(op)

NextProbe ==
  \/ \E port \in Ports : ReorderPorts(port)
  \/ \E outcome \in ProbeOutcomes : DaemonIsAlive(outcome)

NextLog ==
  \/ \E up \in SUBSET Ports : GetReports(up)
  \/ StartDaemonServer("Linux", 0, SpawnOk)
  \/ \E code \in ExitCodes : DaemonExits(code)
  \/ CheckDaemonExitCode

\* the daemons that answer during a fetch: none, one of them, all of them
FewUp == {{}, Ports} \cup {{port} : port \in Ports}

\* every operation of the module; the status tasks are capped lower than in
\* NextStatus, where they are alone
NextAll ==
  \/ \E port \in Ports : ReorderPorts(port)
  \/ \E up \in FewUp : GetReports(up)
  \/ \E status \in StatusCodes :
       Len(task_log) < MaxAllTasks /\ HandleDaemonStatusTask(status)
  \/ \E outcome \in ProbeOutcomes : DaemonIsAlive(outcome)
  \/ \E op \in FeatureOps : FeatureRequest(op)
  \/ StartDaemonServer("Linux", 0, SpawnOk)
  \/ DaemonExits(100)
  \/ CheckDaemonExitCode

Next == NextPorts \/ NextStatus

\* every operation, interleaved
Spec == Init /\ [][Next]_vars

\* the registry and the report fetch alone
SpecPorts == Init /\ [][NextPorts]_vars

\* the status notifier alone
SpecStatus == Init /\ [][NextStatus]_vars

\* the launches of the daemon, in every way they can end
SpecLaunch == Init /\ [][NextLaunch]_vars

\* a daemon that is launched, ends and has its exit code read, with a
\* registry that is reordered meanwhile
SpecExit == Init /\ [][NextExit]_vars

\* the feature requests, with a registry that is reordered between them
SpecGateway == Init /\ [][NextGateway]_vars

\* the liveness probe, with a registry that is reordered between probes
SpecProbe == Init /\ [][NextProbe]_vars

\* the program starts with the ports in ascending order
InitAll == Init /\ DAEMON_PORTS = [i \in 1..NumPorts |-> 79 + i]

\* every operation, interleaved, from the registry in ascending order
SpecAll == InitAll /\ [][NextAll]_vars

\* a daemon that is launched, ends and has its exit code read, with
\* reports that are fetched meanwhile
SpecLog == Init /\ [][NextLog]_vars

(* ------------------------- properties: registry ----------------------- *)

ReportUrl(port) == [host |-> "127.0.0.1", port |-> port, path |-> "/report"]

Report(port) == [kind |-> "report", port |-> port]

ConnectionError(port) == [kind |-> "ConnectionError", port |-> port]

\* s without the entries equal to p, the others in their order
Without(s, p) == SelectSeq(s, LAMBDA x : x # p)

\* the last call was reorder_ports(p) with p in the registry
ReorderedPresent ==
  /\ last.op = "reorder_ports"
  /\ last.port \in Range(last.ports_before)

\* the last call was get_reports in single-port mode
FetchedSingle == last.op = "get_reports" /\ last.failed_before < 10

\* the last call was get_reports in fallback mode
FetchedFallback == last.op = "get_reports" /\ last.failed_before >= 10

\* C1 as stated: after reorder_ports(p) with p in the registry, p is first
\* and the rest is the original sequence with p removed, in its original order.
C1_MoveToFront ==
  ReorderedPresent =>
    /\ ~last.raised
    /\ DAEMON_PORTS[1] = last.port
    /\ Tail(DAEMON_PORTS) = Without(last.ports_before, last.port)

\* C1 amended: after reorder_ports(p) with p in the registry, p is first and
\* the rest is the ports that followed p in the original sequence, then the
\* ports that preceded it, each group in its original order (a left rotation).
C1_Rotation ==
  ReorderedPresent =>
    /\ ~last.raised
    /\ DAEMON_PORTS[1] = last.port
    /\ \E i \in 1..Len(last.ports_before) :
         /\ last.ports_before[i] = last.port
         /\ Tail(DAEMON_PORTS) =
              SubSeq(last.ports_before, i + 1, Len(last.ports_before))
                \o SubSeq(last.ports_before, 1, i - 1)

\* reorder_ports promoted the middle port of a registry of three
C1_Witness ==
  /\ ReorderedPresent
  /\ Len(last.ports_before) >= 3
  /\ last.ports_before[2] = last.port
  /\ DAEMON_PORTS[1] = last.port

\* the scenario of C2: fallback mode, registry [80,81,82], 80 down, 81 up
C2_Scenario ==
  /\ FetchedFallback
  /\ last.ports_before = <<80, 81, 82>>
  /\ 80 \notin last.up
  /\ 81 \in last.up

\* C2 as stated: in that scenario get_reports returns the response of port 81
\* and the registry afterwards is [81,80,82].
C2_Registry_81_80_82 ==
  C2_Scenario =>
    /\ ~last.raised
    /\ last.value = Report(81)
    /\ DAEMON_PORTS = <<81, 80, 82>>

\* C2 amended: in that scenario get_reports returns the response of port 81
\* and the registry afterwards is [81,82,80].
C2_Registry_81_82_80 ==
  C2_Scenario =>
    /\ ~last.raised
    /\ last.value = Report(81)
    /\ DAEMON_PORTS = <<81, 82, 80>>

\* the scenario of C2 has run
C2_Witness == C2_Scenario /\ DAEMON_PORTS[1] = 81

\* the requests of a fallback call over `ports` while `up` answers: the ports
\* in order, each one before the last a failure, ending at the first answer or
\* at the end of the registry
TriesRegistry(ports, up, queried) ==
  LET n == Len(queried)
  IN /\ n \in 1..Len(ports)
     /\ \A i \in 1..n : queried[i] = ReportUrl(ports[i])
     /\ \A i \in 1..(n - 1) : ports[i] \notin up
     /\ ports[n] \in up \/ n = Len(ports)

\* C3: a get_reports call that fails with the counter at 9 queried the default
\* port alone and leaves the counter at 10; a get_reports call that starts with
\* the counter at 10 goes through the registry, not only the default port.
C3_CounterReachesThreshold ==
  [][(last'.op = "get_reports" /\ last' # last) =>
       /\ (DAEMON_FAILED_REPORTS = 9 /\ last'.raised) =>
            /\ last'.queried = <<ReportUrl(DAEMON_PORTS[1])>>
            /\ DAEMON_FAILED_REPORTS' = 10
       /\ DAEMON_FAILED_REPORTS = 10 =>
            /\ last'.failed_before = 10
            /\ TriesRegistry(DAEMON_PORTS, last'.up, last'.queried)
            /\ (Range(DAEMON_PORTS) \cap last'.up = {}) =>
                 Len(last'.queried) = Len(DAEMON_PORTS)]_vars

\* the call after the tenth failure went past a default port that was down
C3_Witness ==
  /\ last.op = "get_reports"
  /\ last.failed_before = 10
  /\ last.ports_before[1] \notin last.up
  /\ Len(last.queried) >= 2

\* C4: the registry is never empty, never holds a port twice, and always
\* holds exactly the ports it held at the start.
C4_RegistryInvariant ==
  /\ DAEMON_PORTS # <<>>
  /\ NoDuplicates(DAEMON_PORTS)
  /\ Range(DAEMON_PORTS) = Range(initial_ports)

\* a fallback promotion has changed a registry of three
C4_Witness ==
  /\ FetchedFallback
  /\ ~last.raised
  /\ Len(initial_ports) >= 3
  /\ DAEMON_PORTS # last.ports_before
  /\ DAEMON_PORTS # initial_ports

\* C5: reorder_ports(target) with target absent from the registry raises
\* (ValueError, the NotFound outcome) and leaves the registry as it was.
C5_AbsentTargetRaises ==
  (last.op = "reorder_ports" /\ last.port \notin Range(last.ports_before)) =>
    /\ last.raised
    /\ last.value = [kind |-> "ValueError", port |-> last.port]
    /\ DAEMON_PORTS = last.ports_before

\* reorder_ports was called with an absent target on a registry of two or more
C5_Witness ==
  /\ last.op = "reorder_ports"
  /\ last.port \notin Range(last.ports_before)
  /\ Len(last.ports_before) >= 2
  /\ last.raised

\* C6: below the threshold a get_reports call makes one request, to the port
\* that was first in the registry; it returns that port's response or raises
\* that port's error, and the registry is unchanged.
C6_SinglePortMode ==
  FetchedSingle =>
    /\ last.queried = <<ReportUrl(last.ports_before[1])>>
    /\ last.ports_before[1] \in last.up =>
         ~last.raised /\ last.value = Report(last.ports_before[1])
    /\ last.ports_before[1] \notin last.up =>
         last.raised /\ last.value = ConnectionError(last.ports_before[1])
    /\ DAEMON_PORTS = last.ports_before

\* a single-port call failed although another port of the registry answered
C6_Witness ==
  /\ FetchedSingle
  /\ last.raised
  /\ Len(last.ports_before) >= 2
  /\ last.ports_before[2] \in last.up

\* position of the first port of the call's registry that answered
FirstUp ==
  CHOOSE k \in 1..Len(last.ports_before) :
    /\ last.ports_before[k] \in last.up
    /\ \A j \in 1..(k - 1) : last.ports_before[j] \notin last.up

\* C7: a fallback call in which some port answers queried the ports in registry
\* order up to the first one that answers, each once and none after it, raised
\* nothing, returned that port's response and made that port the first.
C7_FirstSuccessPromoted ==
  (FetchedFallback /\ Range(last.ports_before) \cap last.up # {}) =>
    /\ last.queried = [i \in 1..FirstUp |-> ReportUrl(last.ports_before[i])]
    /\ ~last.raised
    /\ last.value = Report(last.ports_before[FirstUp])
    /\ DAEMON_PORTS[1] = last.ports_before[FirstUp]

\* a fallback call succeeded on the second of three ports, the third up too
C7_Witness ==
  /\ FetchedFallback
  /\ Len(last.ports_before) >= 3
  /\ last.ports_before[1] \notin last.up
  /\ last.ports_before[2] \in last.up
  /\ last.ports_before[3] \in last.up
  /\ ~last.raised

\* C8: a fallback call in which no port answers queried every port once, in
\* registry order, raised the error of the last port and left the registry
\* unchanged.
C8_AllFailRaisesLast ==
  (FetchedFallback /\ Range(last.ports_before) \cap last.up = {}) =>
    /\ last.queried =
         [i \in 1..Len(last.ports_before) |-> ReportUrl(last.ports_before[i])]
    /\ last.raised
    /\ last.value = ConnectionError(last.ports_before[Len(last.ports_before)])
    /\ DAEMON_PORTS = last.ports_before

\* a fallback call failed on all of three ports
C8_Witness ==
  /\ FetchedFallback
  /\ Len(last.ports_before) >= 3
  /\ Range(last.ports_before) \cap last.up = {}
  /\ last.raised

(* ---------------------- properties: status notifier ------------------- *)

\* the two kinds of result: 200, and everything else
Alive(status) == status = 200

ErrorNotices == {RateLimitNotice, DisconnectedNotice}

\* the online_status values handled so far, in order
Statuses == [i \in 1..Len(task_log) |-> task_log[i].online_status]

\* C9: a task emits a notice only when its result is of the other kind than
\* the one before it (than Offline, for the first task); of two consecutive
\* 200 results the second emits nothing and the two emit at most one
\* "connected" notice, exactly one when they are the first two results; the
\* notices alternate between "connected" and an error notice, "connected" first.
C9_NoticeOnlyOnChange ==
  /\ \A i \in 1..Len(task_log) :
       /\ Len(task_log[i].emitted) <= 1
       /\ task_log[i].emitted # <<>> =>
            Alive(task_log[i].online_status) #
              (IF i = 1 THEN FALSE ELSE Alive(task_log[i - 1].online_status))
  /\ \A i \in 1..(Len(task_log) - 1) :
       (Alive(task_log[i].online_status) /\ Alive(task_log[i + 1].online_status)) =>
         /\ task_log[i + 1].emitted = <<>>
         /\ task_log[i].emitted \in {<<>>, <<ConnectedNotice>>}
         /\ i = 1 => task_log[i].emitted = <<ConnectedNotice>>
  /\ (Len(task_log) = 2 /\ Statuses = <<200, 200>>) =>
       reports_log = <<ConnectedNotice>>
  /\ \A n \in 1..Len(reports_log) :
       IF n % 2 = 1 THEN reports_log[n] = ConnectedNotice
                    ELSE reports_log[n] \in ErrorNotices

\* two 200 results in a row, after an outage, were handled
C9_Witness ==
  /\ Len(task_log) >= 4
  /\ Statuses[1] = 200
  /\ ~Alive(Statuses[2])
  /\ Statuses[3] = 200
  /\ Statuses[4] = 200
  /\ Len(reports_log) = 3

\* C10: a task that finds the signal Online and carries a status other than 200
\* emits exactly one notice, the rate-limit notice when the status is 429 and
\* the "disconnected" notice otherwise; the results 200, 429, 200 emit
\* "connected", "rate limit", "connected" and nothing else.
C10_OneNoticeOnGoingOffline ==
  /\ \A i \in 1..Len(task_log) :
       (task_log[i].was_online /\ ~Alive(task_log[i].online_status)) =>
         /\ Len(task_log[i].emitted) = 1
         /\ task_log[i].emitted[1] = RateLimitNotice <=>
              task_log[i].online_status = 429
         /\ task_log[i].emitted[1] = DisconnectedNotice <=>
              task_log[i].online_status # 429
  /\ (Len(task_log) = 3 /\ Statuses = <<200, 429, 200>>) =>
       reports_log = <<ConnectedNotice, RateLimitNotice, ConnectedNotice>>

\* the results 200, 429, 200 were handled
C10_Witness ==
  /\ Len(task_log) = 3
  /\ Statuses = <<200, 429, 200>>
  /\ DAEMON_ONLINE = TRUE

\* the logo that goes with a value of the signal
LogoOf(online) == IF online THEN "logo" ELSE "logo_offline"

\* C11: the signal starts Offline; once a task was handled the signal is
\* Online exactly when the last handled status was 200; a step that changes
\* the signal sets the logo, in that step, to the one that goes with the new
\* value; after the first change the logo always goes with the signal.
C11_SignalFollowsLastStatus ==
  /\ [](/\ task_log = <<>> => DAEMON_ONLINE = FALSE
        /\ task_log # <<>> =>
             (DAEMON_ONLINE <=> task_log[Len(task_log)].online_status = 200)
        /\ reports_log # <<>> => logo_status = LogoOf(DAEMON_ONLINE))
  /\ [][DAEMON_ONLINE' # DAEMON_ONLINE =>
          logo_status' = LogoOf(DAEMON_ONLINE')]_vars

\* the signal went Online and back Offline, from a logo that showed "logo"
C11_Witness ==
  /\ Len(task_log) >= 2
  /\ task_log[1].online_status = 200
  /\ task_log[2].online_status # 200
  /\ DAEMON_ONLINE = FALSE
  /\ logo_status = "logo_offline"

(* ------------------------ properties: liveness probe ------------------ *)

\* message holds the pieces of `part`, next to each other and in order
Contains(message, part) ==
  \E i \in 1..(Len(message) - Len(part) + 1) :
    SubSeq(message, i, i + Len(part) - 1) = part

\* the registry, the counter and the signal are as they were before the call
\* recorded in `call`
CallLeftSharedState ==
  /\ DAEMON_PORTS = call.before.DAEMON_PORTS
  /\ DAEMON_FAILED_REPORTS = call.before.DAEMON_FAILED_REPORTS
  /\ DAEMON_ONLINE = call.before.DAEMON_ONLINE

\* C12: a probe whose GET ends in a response or in a connection failure sends
\* one GET to the root of the first registry port, with the timeout pair and no
\* proxy, raises nothing and returns (true, message with the body) for 200,
\* (false, message with the status code) for another status and (false,
\* message with "EXCEPTION") for the connection failure; the registry, the
\* counter and the signal are as before.
C12_ProbeMapsOutcome ==
  (call.op = "daemon_is_alive" /\ call.outcome.kind \in {"response", "ConnectionError"}) =>
    /\ call.requests =
         <<[method |-> "GET",
            url |-> [host |-> "127.0.0.1", port |-> call.before.DAEMON_PORTS[1],
                     path |-> "/"],
            json |-> {}, timeout |-> <<100, 500>>,
            proxies |-> NoProxies]>>
    /\ ~call.raised
    /\ call.outcome.kind = "ConnectionError" =>
         call.value[1] = FALSE /\ Contains(call.value[2], <<"EXCEPTION">>)
    /\ (call.outcome.kind = "response" /\ call.outcome.status_code = 200) =>
         call.value[1] = TRUE /\ Contains(call.value[2], <<call.outcome.text>>)
    /\ (call.outcome.kind = "response" /\ call.outcome.status_code = 404) =>
         call.value[1] = FALSE /\ Contains(call.value[2], <<"4", "0", "4">>)
    /\ (call.outcome.kind = "response" /\ call.outcome.status_code # 200) =>
         /\ call.value[1] = FALSE
         /\ Contains(call.value[2], Decimal(call.outcome.status_code))
    /\ CallLeftSharedState

\* a probe met a refused connection on a port that a reorder had made first
C12_Witness ==
  /\ call.op = "daemon_is_alive"
  /\ call.outcome.kind = "ConnectionError"
  /\ call.before.DAEMON_PORTS # initial_ports
  /\ call.value[1] = FALSE

(* ----------------------- properties: feature requests ------------------ *)

\* C13: every feature function sends its request to the address of the first
\* registry port, with the caller's process identity (app_id) in the body,
\* with the timeout pair and with the proxies switched off.
C13_UniformDispatch ==
  call.op = "feature" =>
    /\ Len(call.requests) = 1
    /\ call.requests[1].url.host = "127.0.0.1"
    /\ call.requests[1].url.port = call.before.DAEMON_PORTS[1]
    /\ "app_id" \in call.requests[1].json
    /\ call.requests[1].timeout = <<100, 500>>
    /\ call.requests[1].proxies = NoProxies

(* --------------------------- properties: launcher --------------------- *)

\* the last call was start_daemon_server and its spawn ended in an error
LaunchFailed == call.op = "start_daemon_server" /\ call.spawn # SpawnOk

\* the last call was start_daemon_server and its spawn went well
LaunchSpawned == call.op = "start_daemon_server" /\ call.spawn = SpawnOk

\* the handle a launch stores when the first registry port is `port`
HandleFor(port) ==
  [port |-> port, log_path |-> [dir |-> DaemonDir, port |-> port],
   returncode |-> None]

\* C14: a launch whose spawn fails, in whichever class, hands exactly one error
\* notice to the user, the one of that class, raises the error it met, and
\* leaves global_vars.daemon_process as it was before the call.
C14_SpawnFailureReportedOnce ==
  LaunchFailed =>
    /\ Len(call.emitted) = 1
    /\ call.emitted[1].type = "ERROR"
    /\ call.emitted[1].text =
         (IF call.spawn.class = "PermissionError"
          THEN "FATAL ERROR: Write access denied to"
          ELSE IF call.spawn.class = "OSError" /\ call.spawn.winerror = 87
          THEN "FATAL ERROR: Daemon server blocked from starting"
          ELSE IF call.spawn.class = "OSError" THEN "str(e)"
          ELSE "Error: Daemon server failed to start")
    /\ call.raised
    /\ call.error = call.spawn
    /\ daemon_process = call.before.daemon_process

\* a launch failed with an unexpected error after a failed interpreter check,
\* while the handle of an earlier launch was held
C14_Witness ==
  /\ LaunchFailed
  /\ call.spawn.class = "Exception"
  /\ call.python_check # 0
  /\ call.before.daemon_process # NoProcess
  /\ daemon_process # NoProcess

\* C15: a failed interpreter check does not end the launch: the spawn is tried
\* with the arguments of a launch whose check passed, and when it goes well
\* the handle stored is the same; the check only adds its warning to the log
\* and puts a warning and one notice in place of the informational log.
C15_CheckFailureDoesNotAbort ==
  /\ call.op = "start_daemon_server" =>
       call.attempted =
         <<[script |-> "daemon/daemon.py", port |-> call.before.DAEMON_PORTS[1],
            flags |-> <<"--port", "--server", "--proxy_which", "--proxy_address",
                        "--proxy_ca_certs", "--ip_version", "--system_id",
                        "--version">>]>>
  /\ LaunchSpawned =>
       /\ ~call.raised
       /\ daemon_process = HandleFor(call.before.DAEMON_PORTS[1])
  /\ (LaunchSpawned /\ call.python_check = 0) =>
       /\ call.emitted = <<>>
       /\ call.logs = <<[level |-> "info", text |-> "Daemon server starting on address"]>>
  /\ (LaunchSpawned /\ call.python_check # 0) =>
       /\ Len(call.emitted) = 1
       /\ call.emitted[1].text =
            "Due to unsuccessful Python check the daemon server will probably fail to run"
       /\ \A i \in 1..Len(call.logs) : call.logs[i].level = "warning"
       /\ Len(call.logs) >= 1

\* a launch went through after a failed interpreter check
C15_Witness ==
  /\ LaunchSpawned
  /\ call.python_check # 0
  /\ daemon_process = HandleFor(DAEMON_PORTS[1])
  /\ Len(call.emitted) = 1

(* --------------------- properties: exit-code classifier --------------- *)

\* the last call read the exit code of a process that had ended
CheckedExited ==
  /\ call.op = "check_daemon_exit_code"
  /\ call.before.daemon_process # NoProcess
  /\ call.before.daemon_process.returncode # None

\* the code the process of the last check had ended with
CheckedCode == call.before.daemon_process.returncode[1]

\* the text of the message the last check returned
CheckedText == call.value[2].pieces

\* C16: for a process that ended, check_daemon_exit_code returns the code it
\* polled and the message of the table: 100 the OS error, 101 and 102 the
\* missing dependency, 111 and 113 a message with "firewall", 114 the invalid
\* pointer, 121 the semaphore timeout, 148 and 149 one and the same message
\* with "in use", any other code the generic "unexpected" one; the registry,
\* the counter, the signal and the process handle are as before.
C16_ExitCodeTable ==
  CheckedExited =>
    /\ ~call.raised
    /\ call.value[1] = <<CheckedCode>>
    /\ CheckedCode = 100 => CheckedText[2] =
         " OSError. Please report a bug and paste content of log "
    /\ CheckedCode = 101 => CheckedText[1] = "failed to import AIOHTTP. Try to delete "
    /\ CheckedCode = 102 => CheckedText[1] = "failed to import CERTIFI. Try to delete "
    /\ CheckedCode \in {111, 113} => Contains(CheckedText, <<"firewall">>)
    /\ CheckedCode = 111 => ~Contains(CheckedText, <<"cannot open port. Check your antivirus/">>)
    /\ CheckedCode = 114 => CheckedText =
         <<"invalid pointer address. Please report a bug and paste content of log ">>
    /\ CheckedCode = 121 => CheckedText =
         <<"semaphore timeout exceeded. In preferences set IP version to \"Use only IPv4\".">>
    /\ CheckedCode \in {148, 149} =>
         /\ Contains(CheckedText, <<"in use">>)
         /\ call.value[2] = [pieces |-> <<"address already ", "in use",
                                          ". Select different daemon port in preferences.">>,
                             log_path |-> NoPath]
    /\ CheckedCode \notin {100, 101, 102, 111, 113, 114, 121, 148, 149} =>
         CheckedText =
           <<"unexpected", " Exception. Please report a bug and paste content of log ">>
    /\ CallLeftSharedState
    /\ daemon_process = call.before.daemon_process

\* the exit code 148 of a process was read
C16_Witness ==
  /\ CheckedExited
  /\ CheckedCode = 148
  /\ Contains(CheckedText, <<"in use">>)

\* every message the table can give
TableMessages ==
  {exit_message(<<code>>, daemon_log_path(DaemonDir, port)) :
     code \in ExitCodes, port \in Ports}

\* C17: for a process that still runs, check_daemon_exit_code returns no exit
\* code and the "running" message, which is none of the messages of the table.
C17_RunningIsNotADiagnosis ==
  /\ RunningMessage \notin TableMessages
  /\ (/\ call.op = "check_daemon_exit_code"
      /\ call.before.daemon_process # NoProcess
      /\ call.before.daemon_process.returncode = None) =>
       /\ ~call.raised
       /\ call.value[1] = None
       /\ call.value[2] = RunningMessage
       /\ call.value[2] \notin TableMessages

\* the exit code of a running process was asked for
C17_Witness ==
  /\ call.op = "check_daemon_exit_code"
  /\ call.before.daemon_process # NoProcess
  /\ call.before.daemon_process.returncode = None
  /\ call.value[1] = None

(* ------------------------- properties: rotation ----------------------- *)

\* the port that follows p in the sequence s, the first one after the last
CyclicSuccessor(s, p) ==
  LET i == CHOOSE k \in 1..Len(s) : s[k] = p
  IN s[(i % Len(s)) + 1]

\* s and t hold the same ports and every port has the same cyclic successor
IsRotation(s, t) ==
  /\ Len(s) = Len(t)
  /\ Range(s) = Range(t)
  /\ \A p \in Range(s) : CyclicSuccessor(s, p) = CyclicSuccessor(t, p)

\* C19: the registry is always a cyclic rotation of the initial registry, and
\* reorder_ports on the port that is already first leaves the registry as it
\* was, a registry of one port included.
C19_RegistryIsRotation ==
  /\ IsRotation(DAEMON_PORTS, initial_ports)
  /\ (/\ last.op = "reorder_ports"
      /\ last.ports_before # <<>>
      /\ last.port = last.ports_before[1]) =>
       /\ ~last.raised
       /\ DAEMON_PORTS = last.ports_before

\* a registry of three ports that a call has rotated away from its initial order
C19_Witness ==
  /\ Len(DAEMON_PORTS) = 3
  /\ DAEMON_PORTS # initial_ports
  /\ last.op \in {"reorder_ports", "get_reports"}
  /\ DAEMON_PORTS # last.ports_before

\* reorder_ports was called on the only port of a registry of size 1
C19_WitnessSingle ==
  /\ last.op = "reorder_ports"
  /\ Len(last.ports_before) = 1
  /\ last.port = last.ports_before[1]

(* ---------------------- properties: the daemon's log ------------------ *)

\* the last check named a log file in its message
CheckNamedLog ==
  /\ call.op = "check_daemon_exit_code"
  /\ ~call.raised
  /\ call.value[2].log_path # NoPath

\* C20: the log file check_daemon_exit_code names in its message is the log
\* file start_daemon_server opened for the process whose exit code it read,
\* also after a fallback promotion of get_reports has changed the first port.
C20_NamedLogIsLaunchLog ==
  CheckNamedLog =>
    call.value[2].log_path = call.before.daemon_process.log_path

\* a check named a log file after the first port of the registry had changed
\* since the launch
C20_Witness ==
  /\ CheckNamedLog
  /\ call.before.daemon_process.port # get_port(call.before.DAEMON_PORTS)

(* ----------------------- properties: single writer -------------------- *)

\* the step is a call of reorder_ports or get_reports
PortsStep == last'.op # "none"

\* the step is a call of handle_daemon_status_task
StatusStep == task_log' # task_log

\* the step is a probe, a feature request, a launch or an exit-code check
OtherCallStep == call'.op # "none"

\* C18: in every step of any interleaving of the operations, the registry
\* changes only by reorder_ports, called directly or by the fallback of
\* get_reports, the counter only on the report-fetch path, the signal only in
\* handle_daemon_status_task; probes, feature requests, launches, exit-code
\* checks and status tasks leave the registry and the counter as they are,
\* and report fetching leaves the signal as it is.
C18_SingleWriter ==
  [][/\ DAEMON_PORTS' # DAEMON_PORTS =>
          /\ PortsStep
          /\ ~last'.raised
          /\ \/ /\ last'.op = "reorder_ports"
                /\ DAEMON_PORTS' = reorder_ports(DAEMON_PORTS, last'.port).ports
             \/ /\ last'.op = "get_reports"
                /\ ~single_port_mode(DAEMON_FAILED_REPORTS)
                /\ DAEMON_PORTS' = reorder_ports(DAEMON_PORTS, last'.value.port).ports
     /\ DAEMON_FAILED_REPORTS' # DAEMON_FAILED_REPORTS =>
          /\ last'.op = "get_reports"
          /\ last'.raised
          /\ DAEMON_FAILED_REPORTS' = DAEMON_FAILED_REPORTS + 1
     /\ DAEMON_ONLINE' # DAEMON_ONLINE => StatusStep
     /\ (OtherCallStep \/ StatusStep) =>
          UNCHANGED <<DAEMON_PORTS, DAEMON_FAILED_REPORTS>>
     /\ (PortsStep \/ OtherCallStep) => UNCHANGED DAEMON_ONLINE
     /\ ~(PortsStep \/ StatusStep \/ OtherCallStep) =>
          UNCHANGED <<DAEMON_PORTS, DAEMON_FAILED_REPORTS, DAEMON_ONLINE>>
    ]_vars

\* a probe ran after the fallback had promoted a port, the counter had been
\* raised and a status task had set the signal: every writer has written
C18_Witness ==
  /\ call.op = "daemon_is_alive"
  /\ DAEMON_PORTS # initial_ports
  /\ ~single_port_mode(DAEMON_FAILED_REPORTS)
  /\ DAEMON_ONLINE
  /\ task_log # <<>>
  /\ daemon_process # NoProcess

====
